---- MODULE Spec2Model ----
(***************************************************************************)
(* A model of GulpIO's dataset adapters (gulpio/adapters.py) and of the    *)
(* clip transforms of its loader (gulpio/loader.py).                       *)
(*                                                                         *)
(* Spec           one adapter instance and the iter_data generators a      *)
(*                consumer makes from it, one generator alive at a time    *)
(* SpecLabel      create_label2idx_dict as a function of the entry list    *)
(* SpecTransform  the per-clip transforms and ComposeVideo                 *)
(* SpecScale      repeated application of Scale to one image               *)
(* SpecCrop       one call of CenterCrop                                   *)
(* SpecFolder     the construction of an ImageFolderAdapter over a folder  *)
(*                                                                         *)
(* Strings that are compared (labels, paths) are sequences of character    *)
(* codes; Python orders them lexicographically, a proper prefix first.     *)
(***************************************************************************)
EXTENDS Integers, Sequences, FiniteSets, TLC

VARIABLES
    \* the adapter object (self.*)
    variant, data, shuffle, label2idx, all_meta,
    \* the generator made by the last iter_data call
    pc, slice_element, items, idx, exc, log,
    \* the environment: /dev/shm and <output_folder>/label2idx.json
    temp_dirs, file,
    \* bookkeeping over the adapter's lifetime
    calls, writes, completed, seen,
    \* one call of a loader transform
    imgs, draws, result, tcall,
    \* repeated Scale, and one call of CenterCrop
    simg, ssize, applied, first, kind, region,
    \* the files on disk, and the construction of an ImageFolderAdapter
    tree, folder, file_extensions, built

adapterVars == <<variant, data, shuffle, label2idx, all_meta>>
genVars == <<pc, slice_element, items, idx, exc, log>>
envVars == <<temp_dirs, file>>
lifeVars == <<calls, writes, completed, seen>>
transformVars == <<imgs, draws, result, tcall>>
scaleVars == <<simg, ssize, applied, first, kind, region>>
folderVars == <<tree, folder, file_extensions, built>>
vars == <<adapterVars, folderVars, genVars, envVars, lifeVars, transformVars,
          scaleVars>>

----------------------------------------------------------------------------
(* Bounds *)

MaxEntries == 2
MaxCalls == 2

Min(a, b) == IF a < b THEN a ELSE b

----------------------------------------------------------------------------
(* Labels and the label index *)

\* "b" and "ab": the longer string sorts first
AdapterLabels == {<<2>>, <<1, 2>>}

\* Python's str.__lt__
StrLess(s, t) ==
    \E k \in 1..(Min(Len(s), Len(t)) + 1) :
        /\ \A j \in 1..(k - 1) : s[j] = t[j]
        /\ \/ k > Len(s) /\ k <= Len(t)
           \/ k <= Len(s) /\ k <= Len(t) /\ s[k] < t[k]

RECURSIVE SortAsc(_)
SortAsc(S) ==
    IF S = {} THEN <<>>
    ELSE LET m == CHOOSE x \in S : \A y \in S : x = y \/ StrLess(x, y)
         IN  <<m>> \o SortAsc(S \ {m})

\* sorted(set(...)) of a list of labels
SortedSet(labels) == SortAsc({labels[i] : i \in DOMAIN labels})

EmptyMap == [l \in {} |-> 0]

\* label2idx[label] = label_counter
SetItem(m, l, k) == [x \in (DOMAIN m) \cup {l} |-> IF x = l THEN k ELSE m[x]]

\* for label_counter, label in enumerate(labels): label2idx[label] = label_counter
RECURSIVE EnumerateInto(_, _, _)
EnumerateInto(labels, k, m) ==
    IF k > Len(labels) THEN m
    ELSE EnumerateInto(labels, k + 1, SetItem(m, labels[k], k - 1))

\* the list is sorted but not reduced to its distinct labels: a repeated label
\* is enumerated once per entry
RECURSIVE InsertSorted(_, _)
InsertSorted(s, x) ==
    IF s = <<>> THEN <<x>>
    ELSE IF StrLess(x, s[1]) THEN <<x>> \o s
    ELSE <<s[1]>> \o InsertSorted(Tail(s), x)

RECURSIVE SortList(_)
SortList(s) == IF s = <<>> THEN <<>> ELSE InsertSorted(SortList(Tail(s)), s[1])

create_label2idx_dict_noset(d) ==
    EnumerateInto(SortList([i \in DOMAIN d |-> d[i].label]), 1, EmptyMap)

create_label2idx_dict(d) ==
    EnumerateInto(SortedSet([i \in DOMAIN d |-> d[i].label]), 1, EmptyMap)

\* idx taken from the entry's place in the manifest instead of the label index
get_meta_by_position(d, l2i) ==
    [i \in DOMAIN d |-> [id |-> d[i].id, label |-> d[i].label, idx |-> i - 1]]

get_meta(d, l2i) ==
    [i \in DOMAIN d |->
        [id |-> d[i].id, label |-> d[i].label, idx |-> l2i[d[i].label]]]

\* random.shuffle: any permutation
Shuffles(s) ==
    LET n == Len(s)
        P == {p \in [1..n -> 1..n] : \A i, j \in 1..n : p[i] = p[j] => i = j}
    IN  {[i \in 1..n |-> s[p[i]]] : p \in P}

----------------------------------------------------------------------------
(* The adapter and its iter_data generator *)

\* Custom20BNJsonAdapter, OpenSource20BNAdapter, ImageListAdapter,
\* ImageFolderAdapter
Variants == {"json", "csv", "list", "folder"}

\* manifests list each element once: the entry at place i has id i
DataSets ==
    UNION {[1..n -> {[id |-> i, label |-> l] : i \in 1..MaxEntries, l \in AdapterLabels}]
              : n \in 0..MaxEntries}

Manifests == {d \in DataSets : \A i \in DOMAIN d : d[i].id = i}

NoSlice == [none |-> TRUE, start |-> 0, stop |-> 0]
Slices ==
    {NoSlice} \cup
    {[none |-> FALSE, start |-> a, stop |-> b] : a, b \in 0..MaxEntries}

\* slice_element or slice(0, len(self)): a slice object is always true
EffectiveSlice(sl, n) ==
    IF sl.none THEN [none |-> FALSE, start |-> 0, stop |-> n] ELSE sl

\* list[start:stop] for start, stop >= 0: both ends are clamped to the length
SliceStart(sl, n) == Min(EffectiveSlice(sl, n).start, n)
SliceStop(sl, n) == Min(EffectiveSlice(sl, n).stop, n)

\* the slice takes one element too many
GetSliceInclusive(s, sl) ==
    SubSeq(s, SliceStart(sl, Len(s)) + 1, Min(SliceStop(sl, Len(s)) + 1, Len(s)))

GetSlice(s, sl) == SubSeq(s, SliceStart(sl, Len(s)) + 1, SliceStop(sl, Len(s)))

NoMeta == [id |-> 0, label |-> <<>>, idx |-> 0]
NoRecord == [id |-> 0, meta |-> NoMeta, frames |-> <<>>]

\* result = {'meta': meta, 'frames': frames, 'id': meta['id']}
Record(meta) == [id |-> meta.id, meta |-> meta, frames |-> <<meta.id>>]

Event(e, pos, rec, err) == [ev |-> e, pos |-> pos, rec |-> rec, err |-> err]

\* where the consumer holds control: no generator yet, a generator made but
\* not started, suspended at its yield, returned, raised, closed, or found
\* finished by a later pull
ConsumerControl ==
    {"idle", "created", "yielded", "returned", "raised", "closed", "stop"}
Finished == {"idle", "returned", "raised", "closed", "stop"}

\* the failing entry is passed over: the generator stays suspended and the next
\* pull goes on with the following entry
RaiseAndContinue(l, e) ==
    /\ pc' = "yielded"
    /\ log' = Append(l, Event("raise", idx, NoRecord, e))

\* an exception leaves the generator's frame: no try/except in iter_data
Raise(l, e) ==
    /\ pc' = "raised"
    /\ log' = Append(l, Event("raise", idx, NoRecord, e))

\* adapter.iter_data(slice_element): makes the generator, runs nothing of it
iter_data ==
    /\ pc \in Finished
    /\ calls < MaxCalls
    /\ \E sl \in Slices :
          /\ slice_element' = sl
          /\ pc' = "created"
          /\ items' = <<>>
          /\ idx' = 0
          /\ exc' = "none"
          /\ log' = <<>>
    /\ calls' = calls + 1
    /\ UNCHANGED <<adapterVars, folderVars, envVars, writes, completed, seen,
                   transformVars, scaleVars>>

\* the write is in the loop's body, after the yield: it runs on every pull that
\* follows a record
Resume_write_in_body ==
    /\ pc \in {"created", "yielded"}
    /\ LET its == IF pc = "created" THEN GetSlice(all_meta, slice_element)
                  ELSE items
           wrote == IF pc = "yielded"
                    THEN Append(log, Event("write", idx, NoRecord, "none"))
                    ELSE log
       IN  /\ items' = its
           /\ writes' = IF pc = "yielded" THEN writes + 1 ELSE writes
           /\ IF idx < Len(its)
              THEN /\ idx' = idx + 1
                   /\ pc' = IF variant = "json" THEN "lookup" ELSE "acquire"
                   /\ log' = Append(wrote, Event("acquire", idx + 1, NoRecord, "none"))
                   /\ UNCHANGED completed
              ELSE /\ pc' = "returned"
                   /\ completed' = completed + 1
                   /\ log' = wrote
                   /\ UNCHANGED idx
    /\ UNCHANGED <<adapterVars, folderVars, slice_element, exc, envVars, calls,
                   seen, transformVars, scaleVars>>

\* next(gen) on a fresh or suspended generator, up to the for statement's
\* fetch of the next item
Resume ==
    /\ pc \in {"created", "yielded"}
    /\ LET its == IF pc = "created" THEN GetSlice(all_meta, slice_element)
                  ELSE items
       IN  /\ items' = its
           /\ IF idx < Len(its)
              THEN /\ idx' = idx + 1
                   /\ pc' = IF variant = "json" THEN "lookup" ELSE "acquire"
                   /\ log' = Append(log, Event("acquire", idx + 1, NoRecord, "none"))
                   /\ UNCHANGED completed
              ELSE /\ pc' = "else"
                   /\ completed' = completed + 1
                   /\ UNCHANGED <<idx, log>>
    /\ UNCHANGED <<adapterVars, folderVars, slice_element, exc, envVars, calls, writes,
                   seen, transformVars, scaleVars>>

restOfIteration == <<adapterVars, folderVars, slice_element, items, idx, lifeVars,
                     transformVars, scaleVars>>

\* get_single_video_path(video_folder, format_='mp4'), before any temporary
\* directory is made
get_single_video_path ==
    /\ pc = "lookup"
    /\ \E r \in {"ok", "NotFound", "MultipleMatches"} :
          IF r = "ok"
          THEN pc' = "enter" /\ UNCHANGED log
          ELSE Raise(log, r)
    /\ UNCHANGED <<restOfIteration, exc, envVars>>

\* with temp_dir_for_bursting(self.shm_dir_path) as temp_burst_dir: on entry
temp_dir_enter ==
    /\ pc = "enter"
    /\ temp_dirs' = temp_dirs \cup {idx}
    /\ log' = Append(log, Event("mkdtemp", idx, NoRecord, "none"))
    /\ pc' = "burst"
    /\ UNCHANGED <<restOfIteration, exc, file>>

\* the directory is removed after the with block's last statement only: a
\* failed extraction leaves the block without the removal
burst_video_into_frames_leaking ==
    /\ pc = "burst"
    /\ \E ok \in BOOLEAN :
          IF ok
          THEN pc' = "resize" /\ UNCHANGED <<exc, log>>
          ELSE exc' = "ExtractionFailure" /\ Raise(log, "ExtractionFailure")
    /\ UNCHANGED <<restOfIteration, envVars>>

\* burst_video_into_frames(video_path, temp_burst_dir, ...), inside the with
\* block: a failure leaves the block through the context manager's exit
burst_video_into_frames ==
    /\ pc = "burst"
    /\ \E ok \in BOOLEAN :
          IF ok
          THEN pc' = "resize" /\ UNCHANGED exc
          ELSE pc' = "exit" /\ exc' = "ExtractionFailure"
    /\ UNCHANGED <<restOfIteration, log, envVars>>

\* frames = list(resize_images(frame_paths, self.frame_size)), inside the with
\* block: every frame is decoded before the block is left
resize_images ==
    /\ pc = "resize"
    /\ \E ok \in BOOLEAN :
          IF ok
          THEN pc' = "exit" /\ UNCHANGED exc
          ELSE pc' = "exit" /\ exc' = "DecodeFailure"
    /\ UNCHANGED <<restOfIteration, log, envVars>>

\* the with block's exit: the directory is removed, then a pending exception
\* goes on to the consumer
temp_dir_exit ==
    /\ pc = "exit"
    /\ temp_dirs' = temp_dirs \ {idx}
    /\ IF exc = "none"
       THEN /\ pc' = "yield"
            /\ log' = Append(log, Event("rmtree", idx, NoRecord, "none"))
       ELSE Raise(Append(log, Event("rmtree", idx, NoRecord, "none")), exc)
    /\ UNCHANGED <<restOfIteration, exc, file>>

\* the other adapters' acquisition: find_images_in_folder and resize_images
\* (csv), resize_by_short_edge (list, folder)
acquire_images ==
    /\ pc = "acquire"
    /\ \E r \in {"ok", "DecodeFailure"} :
          IF r = "ok"
          THEN pc' = "yield" /\ UNCHANGED log
          ELSE Raise(log, r)
    /\ UNCHANGED <<restOfIteration, exc, envVars>>

\* yield result
yield_result ==
    /\ pc = "yield"
    /\ pc' = "yielded"
    /\ log' = Append(log, Event("yield", idx, Record(items[idx]), "none"))
    /\ seen' = seen \cup {SliceStart(slice_element, Len(all_meta)) + idx}
    /\ UNCHANGED <<adapterVars, folderVars, slice_element, items, idx, exc, envVars,
                   calls, writes, completed, transformVars, scaleVars>>

\* the file is written only when none exists yet
write_label2idx_dict_once ==
    /\ pc = "else"
    /\ IF file.exists
       THEN pc' = "returned" /\ UNCHANGED <<log, file, writes>>
       ELSE /\ writes' = writes + 1
            /\ file' = [exists |-> TRUE, content |-> label2idx]
            /\ pc' = "returned"
            /\ log' = Append(log, Event("write", idx, NoRecord, "none"))
    /\ UNCHANGED <<adapterVars, folderVars, slice_element, items, idx, exc, temp_dirs,
                   calls, completed, seen, transformVars, scaleVars>>

\* the for statement's else clause: self.write_label2idx_dict(), then the
\* generator returns; open() or json.dump may fail
write_label2idx_dict ==
    /\ pc = "else"
    /\ writes' = writes + 1
    /\ \E ok \in BOOLEAN :
          IF ok
          THEN /\ file' = [exists |-> TRUE, content |-> label2idx]
               /\ pc' = "returned"
               /\ log' = Append(log, Event("write", idx, NoRecord, "none"))
          ELSE /\ Raise(Append(log, Event("write", idx, NoRecord, "none")),
                        "PersistenceFailure")
               /\ UNCHANGED file
    /\ UNCHANGED <<adapterVars, folderVars, slice_element, items, idx, exc, temp_dirs,
                   calls, completed, seen, transformVars, scaleVars>>

\* the label index is written in a finally clause: also when the generator is
\* closed
close_with_finally ==
    /\ pc \in {"created", "yielded"}
    /\ pc' = "closed"
    /\ writes' = writes + 1
    /\ file' = [exists |-> TRUE, content |-> label2idx]
    /\ log' = log \o <<Event("close", idx, NoRecord, "none"),
                       Event("write", idx, NoRecord, "none")>>
    /\ UNCHANGED <<adapterVars, folderVars, slice_element, items, idx, exc, temp_dirs,
                   calls, completed, seen, transformVars, scaleVars>>

\* gen.close(), or the generator dropped: GeneratorExit at the yield (or
\* nothing run at all); a for statement left this way skips its else clause
close ==
    /\ pc \in {"created", "yielded"}
    /\ pc' = "closed"
    /\ log' = Append(log, Event("close", idx, NoRecord, "none"))
    /\ UNCHANGED <<restOfIteration, exc, envVars>>

\* next(gen) on a generator that has returned, raised or been closed:
\* StopIteration, and nothing of iter_data runs
pull_finished ==
    /\ pc \in {"returned", "raised", "closed", "stop"}
    /\ pc' = IF pc = "returned" THEN "returned" ELSE "stop"
    /\ UNCHANGED <<restOfIteration, exc, log, envVars>>

\* no iter_data call has been made yet
NoGenerator ==
    /\ pc = "idle"
    /\ slice_element = NoSlice
    /\ items = <<>>
    /\ idx = 0
    /\ exc = "none"
    /\ log = <<>>
    /\ temp_dirs = {}
    /\ file = [exists |-> FALSE, content |-> EmptyMap]
    /\ calls = 0
    /\ writes = 0
    /\ completed = 0
    /\ seen = {}

\* the adapter was built from a manifest: no folder is scanned
NoFolderScan ==
    /\ tree = {}
    /\ folder = <<>>
    /\ file_extensions = <<>>
    /\ built = "ok"

\* the loader is not part of this specification
NoTransformCall ==
    /\ imgs = <<>>
    /\ draws = <<>>
    /\ result = "none"
    /\ tcall = [name |-> "none", its |-> <<>>, vts |-> <<>>, clip |-> <<>>]

NoScaleCall ==
    /\ simg = [h |-> 1, w |-> 1]
    /\ ssize = [pair |-> FALSE, a |-> 1, b |-> 1]
    /\ applied = 0
    /\ first = [h |-> 1, w |-> 1]
    /\ kind = "numpy"
    /\ region = [x1 |-> 0, y1 |-> 0, x2 |-> 0, y2 |-> 0]

\* __init__: the manifest is read, the label index and the meta list are built,
\* the meta list is shuffled on request
Init ==
    /\ variant \in Variants
    /\ data \in Manifests
    /\ shuffle \in BOOLEAN
    /\ label2idx = create_label2idx_dict(data)
    /\ all_meta \in IF shuffle THEN Shuffles(get_meta(data, label2idx))
                    ELSE {get_meta(data, label2idx)}
    /\ NoFolderScan
    /\ NoGenerator
    /\ NoTransformCall
    /\ NoScaleCall

Next ==
    \/ iter_data
    \/ Resume
    \/ get_single_video_path
    \/ temp_dir_enter
    \/ burst_video_into_frames
    \/ resize_images
    \/ temp_dir_exit
    \/ acquire_images
    \/ yield_result
    \/ write_label2idx_dict
    \/ close
    \/ pull_finished

Spec == Init /\ [][Next]_vars

----------------------------------------------------------------------------
(* Properties of iter_data *)

EventsAt(e) == {i \in DOMAIN log : log[i].ev = e}
YieldedRecords ==
    LET IsYield(e) == e.ev = "yield"
        ys == SelectSeq(log, IsYield)
    IN  [i \in DOMAIN ys |-> ys[i].rec]
AcquisitionErrors ==
    {"NotFound", "MultipleMatches", "ExtractionFailure", "DecodeFailure"}
AllPositions == 1..Len(all_meta)

\* C1: an iter_data generator pulled to its natural end has written the label
\* index exactly once, as its last step; in no state of any iteration is there
\* a write that fewer records than the range holds precede, or that a record
\* follows
C1_WriteOnceAfterLastRecord ==
    /\ \A i \in EventsAt("write") :
          /\ Cardinality({j \in EventsAt("yield") : j < i})
                = Len(GetSlice(all_meta, slice_element))
          /\ \A j \in EventsAt("yield") : j < i
    /\ Cardinality(EventsAt("write")) <= 1
    /\ pc = "returned" =>
          /\ Cardinality(EventsAt("write")) = 1
          /\ log[Len(log)].ev = "write"

C1_Witness ==
    /\ pc = "returned"
    /\ Len(items) = 2
    /\ Cardinality(EventsAt("yield")) = 2
    /\ calls = 2

\* C2: once the consumer has closed or dropped a generator that was not
\* exhausted, that iteration holds no label-index write, at the close or at
\* any later pull
C2_NoWriteAfterAbort ==
    EventsAt("close") # {} =>
        /\ EventsAt("write") = {}
        /\ pc \in {"closed", "stop"}
        /\ writes = completed

C2_Witness ==
    /\ pc = "stop"
    /\ EventsAt("close") # {}
    /\ Cardinality(EventsAt("yield")) = 1
    /\ Len(items) = 2

\* C3 as claimed: over the adapter's lifetime the label index is written at
\* most once, and not before every entry of the adapter has been yielded
C3_Original ==
    /\ writes <= 1
    /\ writes >= 1 => seen = AllPositions

\* C3 as amended: the label index is written once per iter_data call whose
\* range was consumed to its end, whatever the range: as many writes as such
\* calls, each storing the mapping built at construction
C3_WriteOncePerExhaustedCall ==
    /\ pc \in ConsumerControl => writes = completed
    /\ writes <= calls
    /\ file.exists => file.content = create_label2idx_dict(data)
    /\ file.exists => writes >= 1

C3_Witness ==
    /\ pc = "returned"
    /\ writes = 2
    /\ Len(all_meta) = 2
    /\ seen = {1}

\* C5: no temporary directory exists while the consumer holds control, at most
\* one exists at any time, none is made for an entry whose video lookup
\* failed, and none is made by the adapters that do not burst videos
C5_TempDirRemoved ==
    /\ pc \in ConsumerControl => temp_dirs = {}
    /\ Cardinality(temp_dirs) <= 1
    /\ variant # "json" => temp_dirs = {} /\ EventsAt("mkdtemp") = {}
    /\ \A i \in EventsAt("raise") :
          log[i].err \in {"NotFound", "MultipleMatches"} =>
              \A j \in EventsAt("mkdtemp") : log[j].pos # log[i].pos
    /\ \A j \in EventsAt("mkdtemp") :
          \/ \E k \in EventsAt("rmtree") : k > j /\ log[k].pos = log[j].pos
          \/ temp_dirs = {log[j].pos} /\ pc \in {"burst", "resize", "exit"}

C5_Witness ==
    /\ pc = "raised"
    /\ temp_dirs = {}
    /\ \E i \in EventsAt("raise") : log[i].err = "ExtractionFailure"
    /\ \E i \in EventsAt("yield") : log[i].pos = 1

\* C6 as claimed: a consumer that goes on pulling after a failed entry, until
\* the sequence ends, has received the record of every entry of the range but
\* the failed one
C6_Original ==
    (/\ pc = "stop"
     /\ EventsAt("close") = {}
     /\ \E i \in EventsAt("raise") : log[i].err \in AcquisitionErrors)
    => \A p \in 1..Len(items) :
          \/ \E i \in EventsAt("yield") : log[i].pos = p
          \/ \E i \in EventsAt("raise") : log[i].pos = p

\* C6 as amended: a failed acquisition is raised on the pull for its entry,
\* after one attempt, and ends the sequence: the records before it were
\* yielded, nothing is yielded or written after it, and a later pull finds
\* the generator finished
C6_FailureEndsSequence ==
    /\ \A i \in EventsAt("raise") :
          log[i].err \in AcquisitionErrors =>
              /\ i = Len(log)
              /\ pc \in {"raised", "stop"}
              /\ EventsAt("write") = {}
              /\ {log[j].pos : j \in EventsAt("yield")} = 1..(log[i].pos - 1)
              /\ log[i].pos = idx
    /\ \A i, j \in EventsAt("acquire") : log[i].pos = log[j].pos => i = j

C6_Witness ==
    /\ pc = "stop"
    /\ Len(items) = 2
    /\ \E i \in EventsAt("raise") :
          log[i].err \in AcquisitionErrors /\ log[i].pos = 1

\* C7: without shuffling, a fully consumed iter_data(range) has yielded one
\* record per place of the range, in manifest order (all len(adapter) of them
\* for no range), each with id = meta.id and meta.idx = label2idx[meta.label]
C7_RecordsInManifestOrder ==
    (~shuffle /\ pc = "returned") =>
        LET n == Len(data)
            a == IF slice_element.none THEN 0 ELSE Min(slice_element.start, n)
            b == IF slice_element.none THEN n ELSE Min(slice_element.stop, n)
            ys == YieldedRecords
        IN  /\ Len(ys) = IF b > a THEN b - a ELSE 0
            /\ slice_element.none => Len(ys) = n
            /\ \A k \in DOMAIN ys :
                  /\ ys[k].id = data[a + k].id
                  /\ ys[k].id = ys[k].meta.id
                  /\ ys[k].meta.label = data[a + k].label
                  /\ ys[k].meta.idx = label2idx[ys[k].meta.label]

C7_Witness ==
    /\ ~shuffle
    /\ pc = "returned"
    /\ slice_element.none
    /\ Len(YieldedRecords) = 2
    /\ YieldedRecords[1].meta.idx = 1
    /\ YieldedRecords[2].meta.idx = 0

----------------------------------------------------------------------------
(* create_label2idx_dict over entry lists: SpecLabel *)

MaxLabelEntries == 3

\* "", "a", "b", "aa", "ab", "ba", "bb"
Labels ==
    {<<>>} \cup {<<c>> : c \in 1..2} \cup {<<c, d>> : c, d \in 1..2}

LabelsOf(d) == {d[i].label : i \in DOMAIN d}

Swap(d, i, j) ==
    [k \in DOMAIN d |-> IF k = i THEN d[j] ELSE IF k = j THEN d[i] ELSE d[k]]

\* __init__ over a given entry list: the label index, then the meta list
Construct(d) ==
    /\ data' = d
    /\ label2idx' = create_label2idx_dict(d)
    /\ all_meta' = get_meta(d, create_label2idx_dict(d))
    /\ UNCHANGED <<variant, shuffle, folderVars, genVars, envVars, lifeVars,
                   transformVars, scaleVars>>

\* the adapter built over the manifest with one more entry, of any label (a
\* new one or one the manifest holds already); the label index reads nothing
\* but the labels, and the entries here all have the id 0
construct_extended ==
    /\ Len(data) < MaxLabelEntries
    /\ \E l \in Labels : Construct(Append(data, [id |-> 0, label |-> l]))

\* the adapter built over the manifest with two entries exchanged
construct_reordered ==
    \E i, j \in DOMAIN data : i < j /\ Construct(Swap(data, i, j))

InitLabel ==
    /\ variant \in Variants
    /\ shuffle = FALSE
    /\ data = <<>>
    /\ label2idx = create_label2idx_dict(<<>>)
    /\ all_meta = <<>>
    /\ NoFolderScan
    /\ NoGenerator
    /\ NoTransformCall
    /\ NoScaleCall

NextLabel == construct_extended \/ construct_reordered

SpecLabel == InitLabel /\ [][NextLabel]_vars

\* C4: the label index maps exactly the distinct labels of the entries, each
\* to the number of distinct labels that are smaller in string order; so its
\* values are 0..K-1, no two labels share one, and exchanging two entries or
\* repeating one gives the same mapping
C4_LabelIndexIsRank ==
    LET S == LabelsOf(data)
        K == Cardinality(S)
    IN  /\ DOMAIN label2idx = S
        /\ \A l \in S : label2idx[l] = Cardinality({m \in S : StrLess(m, l)})
        /\ {label2idx[l] : l \in S} = 0..(K - 1)
        /\ \A l, m \in S : label2idx[l] = label2idx[m] => l = m
        /\ \A i, j \in DOMAIN data :
              create_label2idx_dict(Swap(data, i, j)) = label2idx
        /\ \A i \in DOMAIN data :
              create_label2idx_dict(Append(data, data[i])) = label2idx
        /\ \A i \in DOMAIN all_meta : all_meta[i].idx = label2idx[data[i].label]

\* three entries, two of one label, in an order that is not the sorted one:
\* "b", "ab", "b"
C4_Witness ==
    /\ Len(data) = 3
    /\ data[1].label = <<2>>
    /\ data[2].label = <<1, 2>>
    /\ data[3].label = <<2>>
    /\ label2idx[<<1, 2>>] = 0
    /\ label2idx[<<2>>] = 1

----------------------------------------------------------------------------
(* The loader's clip transforms: SpecTransform *)

MaxFrames == 3
MaxTransforms == 2

\* frame heights and widths, and the number of array dimensions of a frame:
\* height x width, or height x width x channels
FrameDims == 2..3
FrameNdims == {2, 3}

\* JitterCropVideo.sample_sizes
sample_sizes == {256, 224, 192, 168}

\* a frame: where it stood in the clip handed in, its shape, and the
\* transforms applied to it so far
Frame(i, h, w, nd) == [src |-> i, h |-> h, w |-> w, ndim |-> nd, ops |-> <<>>]
Clips ==
    {[i \in 1..n |-> Frame(i, h, w, nd)] :
        n \in 1..MaxFrames, h \in FrameDims, w \in FrameDims, nd \in FrameNdims}

Op(name, a, b) == [op |-> name, a |-> a, b |-> b]
Applied(f, o) == [f EXCEPT !.ops = Append(@, o)]
Draw(fn, v) == [fn |-> fn, v |-> v]

\* what one call gives back: the clip as the call left it (the list is changed
\* in place), "ok" or the exception raised, and the random draws made
Outcome(clip, res, ds) == [imgs |-> clip, result |-> res, draws |-> ds]

\* Normalize.__call__ and UnitNorm.__call__ on one frame
ImgTransforms == {"Normalize", "UnitNorm"}
ImgTransform(t, f) == Applied(f, Op(t, 0, 0))

\* the name RandHorFlipVideo is bound to the second class of that name, whose
\* cv2.flip code is 0; r is random.random() < 0.5
RandHorFlipVideo(clip, r) ==
    Outcome(IF r THEN [i \in DOMAIN clip |-> Applied(clip[i], Op("flip", 0, 0))]
            ELSE clip,
            "ok", <<Draw("random", IF r THEN 0 ELSE 1)>>)

\* img[y1, x1, y1 + th, x1 + tw]: four indices into an array
IndexError4(f) == 4 > f.ndim

\* RandomCropVideo(size, padding).__call__: random.randint(0, w - tw) raises
\* ValueError for w < tw; the crop of the first frame indexes it with four
\* indices, before any frame is stored back
RandomCropVideo(clip, size, padding, x1, y1) ==
    LET th == size
        tw == size
        h == clip[1].h
        w == clip[1].w
    IN  IF w - tw < 0 THEN Outcome(clip, "ValueError", <<>>)
        ELSE IF h - th < 0 THEN Outcome(clip, "ValueError", <<Draw("randint", x1)>>)
        ELSE IF IndexError4(clip[1])
             THEN Outcome(clip, "IndexError",
                          <<Draw("randint", x1), Draw("randint", y1)>>)
        ELSE Outcome([i \in DOMAIN clip |-> Applied(clip[i], Op("crop", x1, y1))],
                     "ok", <<Draw("randint", x1), Draw("randint", y1)>>)

\* JitterCropVideo.__call__(self, img): the two sizes are drawn, then
\* imgs[0] names a variable the method does not have
JitterCropVideo(clip, sw, sh) ==
    Outcome(clip, "NameError", <<Draw("choice", sw), Draw("choice", sh)>>)

\* for t in self.img_transforms: for idx, img in enumerate(imgs): imgs[idx] = t(img)
RECURSIVE ApplyImgTransforms(_, _)
ApplyImgTransforms(ts, clip) ==
    IF ts = <<>> THEN clip
    ELSE ApplyImgTransforms(Tail(ts),
            [i \in DOMAIN clip |-> ImgTransform(ts[1], clip[i])])

\* one per-clip transform of a pipeline, with the random values it draws
VideoTransforms == {"RandHorFlipVideo", "RandomCropVideo"}
VideoTransform(t, clip, rnd) ==
    IF t = "RandHorFlipVideo" THEN RandHorFlipVideo(clip, rnd.x = 0)
    ELSE RandomCropVideo(clip, 1, 0, rnd.x, rnd.y)

Randoms == [x : 0..2, y : 0..2]
ValidRandom(t, clip, rnd) ==
    IF t = "RandHorFlipVideo" THEN rnd.x \in 0..1 /\ rnd.y = 0
    ELSE rnd.x \in 0..(clip[1].w - 1) /\ rnd.y \in 0..(clip[1].h - 1)

\* for t in self.video_transforms: imgs = t(imgs); an exception of t ends the
\* call
RECURSIVE ApplyVideoTransforms(_, _, _)
ApplyVideoTransforms(ts, rnds, out) ==
    IF ts = <<>> \/ out.result # "ok" THEN out
    ELSE LET o == VideoTransform(ts[1], out.imgs, rnds[1])
         IN  ApplyVideoTransforms(Tail(ts), Tail(rnds),
                 Outcome(o.imgs, o.result, out.draws \o o.draws))

\* ComposeVideo.__call__: the two loops, then imgs[i] = np.unsqueeze(img, 0),
\* whose right-hand side is evaluated first: numpy has no unsqueeze
ComposeVideo(clip, its, vts, rnds) ==
    LET o == ApplyVideoTransforms(vts, rnds,
                 Outcome(ApplyImgTransforms(its, clip), "ok", <<>>))
    IN  IF o.result # "ok" THEN o
        ELSE Outcome(o.imgs, "AttributeError", o.draws)

SeqsUpTo(S, n) == UNION {[1..k -> S] : k \in 0..n}

NoCall == [name |-> "none", its |-> <<>>, vts |-> <<>>, clip |-> <<>>]
Call(name, its, vts) == [name |-> name, its |-> its, vts |-> vts, clip |-> imgs]

Return(o, c) ==
    /\ imgs' = o.imgs
    /\ result' = o.result
    /\ draws' = o.draws
    /\ tcall' = c
    /\ UNCHANGED <<adapterVars, folderVars, genVars, envVars, lifeVars, scaleVars>>

call_RandHorFlipVideo ==
    /\ tcall = NoCall
    /\ \E r \in BOOLEAN :
          Return(RandHorFlipVideo(imgs, r), Call("RandHorFlipVideo", <<>>, <<>>))

\* x1 and y1 are what random.randint(0, w - tw) and random.randint(0, h - th)
\* can return (0 stands in where randint raises)
call_RandomCropVideo ==
    /\ tcall = NoCall
    /\ \E size \in 1..3, padding \in 0..1, x1, y1 \in 0..2 :
          /\ x1 <= imgs[1].w - size \/ (x1 = 0 /\ imgs[1].w < size)
          /\ y1 <= imgs[1].h - size \/ (y1 = 0 /\ imgs[1].h < size)
          /\ Return(RandomCropVideo(imgs, size, padding, x1, y1),
                    Call("RandomCropVideo", <<>>, <<>>))

call_JitterCropVideo ==
    /\ tcall = NoCall
    /\ \E sw, sh \in sample_sizes :
          Return(JitterCropVideo(imgs, sw, sh), Call("JitterCropVideo", <<>>, <<>>))

\* ComposeVideo(img_transforms, video_transforms)(imgs, is_val)
call_ComposeVideo ==
    /\ tcall = NoCall
    /\ \E its \in SeqsUpTo(ImgTransforms, MaxTransforms),
          vts \in SeqsUpTo(VideoTransforms, MaxTransforms) :
          \E rnds \in [1..Len(vts) -> Randoms] :
             /\ \A k \in 1..Len(vts) : ValidRandom(vts[k], imgs, rnds[k])
             /\ Return(ComposeVideo(imgs, its, vts, rnds),
                       Call("ComposeVideo", its, vts))

InitTransform ==
    /\ variant = "json"
    /\ data = <<>>
    /\ shuffle = FALSE
    /\ label2idx = EmptyMap
    /\ all_meta = <<>>
    /\ NoFolderScan
    /\ NoGenerator
    /\ imgs \in Clips
    /\ draws = <<>>
    /\ result = "none"
    /\ tcall = NoCall
    /\ NoScaleCall

NextTransform ==
    \/ call_RandHorFlipVideo
    \/ call_RandomCropVideo
    \/ call_JitterCropVideo
    \/ call_ComposeVideo

SpecTransform == InitTransform /\ [][NextTransform]_vars

\* the transforms of the claim: those that draw random parameters for a clip
RandomisedTransforms == {"RandHorFlipVideo", "RandomCropVideo", "JitterCropVideo"}

\* C8: a call of a randomised per-clip transform on a clip of n >= 1 frames
\* completes, has drawn each of its parameters once, and has applied the same
\* parameters to every one of the n frames
C8_SameParametersOnEveryFrame ==
    tcall.name \in RandomisedTransforms =>
        /\ result = "ok"
        /\ Len(imgs) = Len(tcall.clip)
        /\ \A i, j \in DOMAIN imgs : imgs[i].ops = imgs[j].ops
        /\ tcall.name = "RandHorFlipVideo" => Len(draws) = 1
        /\ tcall.name # "RandHorFlipVideo" =>
              /\ Len(draws) \in 2..4
              /\ \A i \in DOMAIN imgs : Len(imgs[i].ops) = 1

\* C9: a ComposeVideo call whose transforms succeed completes and returns the
\* n frames in their order, each having gone through the per-frame transforms
\* in construction order and then the per-clip transforms in theirs
C9_ComposeAppliesStagesInOrder ==
    (/\ tcall.name = "ComposeVideo"
     /\ \A k \in DOMAIN tcall.vts : tcall.vts[k] = "RandHorFlipVideo")
    =>  /\ result = "ok"
        /\ Len(imgs) = Len(tcall.clip)
        /\ \A i \in DOMAIN imgs :
              /\ imgs[i].src = i
              /\ Len(imgs[i].ops) >= Len(tcall.its)
              /\ \A k \in DOMAIN tcall.its : imgs[i].ops[k] = Op(tcall.its[k], 0, 0)
              /\ \A k \in (Len(tcall.its) + 1)..Len(imgs[i].ops) :
                    imgs[i].ops[k] = Op("flip", 0, 0)
              /\ Len(imgs[i].ops) - Len(tcall.its)
                    = Cardinality({k \in DOMAIN draws : draws[k].v = 0})

----------------------------------------------------------------------------
(* Scale: SpecScale *)

MaxDim == 5
MaxSize == 4
MaxApply == 2

\* Scale(size): an int, or a pair (w, h)
IntSize(n) == [pair |-> FALSE, a |-> n, b |-> n]
PairSize(w, h) == [pair |-> TRUE, a |-> w, b |-> h]

\* int(x / y) for x >= 0, y > 0: the true quotient is truncated
IntDiv(x, y) == x \div y

\* the longer edge is matched to size: the two branches set the other side
Scale_longer_edge(size, img) ==
    IF ~size.pair
    THEN IF \/ img.w <= img.h /\ img.w = size.a
            \/ img.h <= img.w /\ img.h = size.a
         THEN img
         ELSE IF img.w < img.h
              THEN [h |-> size.a, w |-> IntDiv(size.a * img.w, img.h)]
              ELSE [w |-> size.a, h |-> IntDiv(size.a * img.h, img.w)]
    ELSE [w |-> size.a, h |-> size.b]

\* Scale.__call__, on the image's height and width: cv2.resize(img, (ow, oh))
\* gives an image ow wide and oh high, whatever the interpolation
Scale(size, img) ==
    IF ~size.pair
    THEN IF \/ img.w <= img.h /\ img.w = size.a
            \/ img.h <= img.w /\ img.h = size.a
         THEN img
         ELSE IF img.w < img.h
              THEN [w |-> size.a, h |-> IntDiv(size.a * img.h, img.w)]
              ELSE [h |-> size.a, w |-> IntDiv(size.a * img.w, img.h)]
    ELSE [w |-> size.a, h |-> size.b]

\* img = scale(img), once more
call_Scale ==
    /\ applied < MaxApply
    /\ simg' = Scale(ssize, simg)
    /\ applied' = applied + 1
    /\ first' = IF applied = 0 THEN Scale(ssize, simg) ELSE first
    /\ UNCHANGED <<ssize, kind, region, adapterVars, folderVars, genVars, envVars, lifeVars,
                   transformVars>>

InitScale ==
    /\ variant = "json"
    /\ data = <<>>
    /\ shuffle = FALSE
    /\ label2idx = EmptyMap
    /\ all_meta = <<>>
    /\ NoFolderScan
    /\ NoGenerator
    /\ NoTransformCall
    /\ simg \in [h : 1..MaxDim, w : 1..MaxDim]
    /\ ssize \in {IntSize(n) : n \in 1..MaxSize}
                   \cup {PairSize(w, h) : w, h \in 1..2}
    /\ applied = 0
    /\ first = simg
    /\ kind = "numpy"
    /\ region = [x1 |-> 0, y1 |-> 0, x2 |-> 0, y2 |-> 0]

NextScale == call_Scale

SpecScale == InitScale /\ [][NextScale]_vars

\* C10: after Scale with an int target S has been applied to an image, the
\* image's shorter side is S, and every further application leaves its width
\* and height as the first application made them
C10_ScaleIdempotent ==
    (~ssize.pair /\ applied >= 1) =>
        /\ Min(simg.h, simg.w) = ssize.a
        /\ simg = first

\* 2 wide, 5 high, S = 3: resized to 3 x 7, then left alone
C10_Witness ==
    /\ applied = 2
    /\ ssize = IntSize(3)
    /\ simg = [h |-> 7, w |-> 3]

----------------------------------------------------------------------------
(* CenterCrop: SpecCrop *)

\* the two image types of the loader: a PIL image has size = (width, height)
\* and crop(), and no shape; a numpy array has shape = (height, width, ...),
\* and its size is one number, the count of its elements
ImageKinds == {"pil", "numpy"}

NoRegion == [x1 |-> 0, y1 |-> 0, x2 |-> 0, y2 |-> 0]

\* int(round(d / 2.)): Python 3 rounds a half to the even neighbour
RoundHalf(d) ==
    LET k == d \div 2
    IN  IF d % 2 = 0 THEN k
        ELSE IF k % 2 = 0 THEN k ELSE k + 1

CropOutcome(res, img, box) == [result |-> res, img |-> img, region |-> box]

\* self.scale(img) as CenterCrop calls it: Scale reads img.shape for an int
\* size and hands img to cv2.resize for a pair
ScaleOf(size, k, img) ==
    IF k = "numpy" THEN CropOutcome("ok", Scale(size, img), NoRegion)
    ELSE CropOutcome(IF size.pair THEN "TypeError" ELSE "AttributeError",
                     img, NoRegion)

\* th, tw = self.size; x1 = int(round((w - tw) / 2.));
\* y1 = int(round((h - th) / 2.)); the box handed to img.crop
CenterCropBox(size, img) ==
    LET th == size.a
        tw == size.b
        x1 == RoundHalf(img.w - tw)
        y1 == RoundHalf(img.h - th)
    IN  [x1 |-> x1, y1 |-> y1, x2 |-> x1 + tw, y2 |-> y1 + th]

\* CenterCrop(size).__call__(img): self.size is (size, size) for a number and
\* size itself for a pair; self.size[0] is compared with the width and
\* self.size[1] with the height; img.crop takes any box
CenterCrop(size, k, img) ==
    IF k = "numpy" THEN CropOutcome("TypeError", img, NoRegion)
    ELSE IF size.a > img.w \/ size.b > img.h
         THEN LET sc == ScaleOf(size, k, img)
              IN  IF sc.result # "ok" THEN sc
                  ELSE CropOutcome("ok", sc.img, CenterCropBox(size, sc.img))
         ELSE CropOutcome("ok", img, CenterCropBox(size, img))

call_CenterCrop ==
    /\ applied = 0
    /\ LET o == CenterCrop(ssize, kind, simg)
       IN  /\ simg' = o.img
           /\ region' = o.region
           /\ result' = o.result
    /\ applied' = 1
    /\ UNCHANGED <<ssize, first, kind, imgs, draws, tcall, adapterVars, folderVars,
                   genVars, envVars, lifeVars>>

InitCrop ==
    /\ variant = "json"
    /\ data = <<>>
    /\ shuffle = FALSE
    /\ label2idx = EmptyMap
    /\ all_meta = <<>>
    /\ NoFolderScan
    /\ NoGenerator
    /\ NoTransformCall
    /\ simg \in [h : 1..MaxDim, w : 1..MaxDim]
    /\ ssize \in {IntSize(n) : n \in 1..MaxSize}
                   \cup {PairSize(w, h) : w, h \in 1..MaxSize}
    /\ applied = 0
    /\ first = simg
    /\ kind \in ImageKinds
    /\ region = NoRegion

NextCrop == call_CenterCrop

SpecCrop == InitCrop /\ [][NextCrop]_vars

\* C11: the region CenterCrop crops has an origin that is not negative, lies
\* inside the image it is cut from (the image handed in, rescaled when it was
\* smaller than the crop), and is as wide and as high as the size (w, h) asks
C11_CropInsideImage ==
    (applied = 1 /\ result = "ok") =>
        /\ region.x1 >= 0
        /\ region.y1 >= 0
        /\ region.x2 <= simg.w
        /\ region.y2 <= simg.h
        /\ region.x2 - region.x1 = ssize.a
        /\ region.y2 - region.y1 = ssize.b

----------------------------------------------------------------------------
(* ImageFolderAdapter over a folder on disk: SpecFolder *)

MaxExtensions == 2

\* the characters of the paths, by their ASCII codes
Chr ==
    [dot |-> 46, slash |-> 47, a |-> 97, b |-> 98, j |-> 106, p |-> 112,
     r |-> 114, t |-> 116, x |-> 120, y |-> 121]

\* ".j" and ".p" stand for two image extensions ('.jpg', '.png'), ".t" for
\* the extension of a file that is no image
ExtJ == <<Chr.dot, Chr.j>>
ExtP == <<Chr.dot, Chr.p>>
ExtT == <<Chr.dot, Chr.t>>

Extensions == {ExtJ, ExtP}

\* file_extensions: a list, possibly empty, possibly with a repetition
ExtensionLists == UNION {[1..n -> Extensions] : n \in 0..MaxExtensions}

\* os.path.join(dir, name)
PathJoin(dir, name) == dir \o <<Chr.slash>> \o name

\* the files that may be on disk, relative to the working directory:
\*   r/a/x.j  r/a/y.p  r/b/x.p  r/x.j  r/a/b/y.j  r/a/.x.j  ra/x.j  r/b/x.t
\*   r/.a/x.p
Files ==
    {PathJoin(<<Chr.r, Chr.slash, Chr.a>>, <<Chr.x>> \o ExtJ),
     PathJoin(<<Chr.r, Chr.slash, Chr.a>>, <<Chr.y>> \o ExtP),
     PathJoin(<<Chr.r, Chr.slash, Chr.b>>, <<Chr.x>> \o ExtP),
     PathJoin(<<Chr.r>>, <<Chr.x>> \o ExtJ),
     PathJoin(<<Chr.r, Chr.slash, Chr.a, Chr.slash, Chr.b>>, <<Chr.y>> \o ExtJ),
     PathJoin(<<Chr.r, Chr.slash, Chr.a>>, <<Chr.dot, Chr.x>> \o ExtJ),
     PathJoin(<<Chr.r, Chr.a>>, <<Chr.x>> \o ExtJ),
     PathJoin(<<Chr.r, Chr.slash, Chr.b>>, <<Chr.x>> \o ExtT),
     PathJoin(<<Chr.r, Chr.slash, Chr.dot, Chr.a>>, <<Chr.x>> \o ExtP)}

\* the folder argument, "r" and "r/"
Folders == {<<Chr.r>>, <<Chr.r, Chr.slash>>}

StartsWith(s, pre) == Len(pre) <= Len(s) /\ SubSeq(s, 1, Len(pre)) = pre

EndsWith(s, suf) ==
    Len(suf) <= Len(s) /\ SubSeq(s, Len(s) - Len(suf) + 1, Len(s)) = suf

\* s.rfind('/') + 1
AfterLastSlash(s) ==
    LET I == {i \in DOMAIN s : s[i] = Chr.slash}
    IN  IF I = {} THEN 0 ELSE CHOOSE i \in I : \A k \in I : k <= i

\* os.path.dirname, of a path without doubled slashes
dirname(path) ==
    IF AfterLastSlash(path) <= 1 THEN <<>>
    ELSE SubSeq(path, 1, AfterLastSlash(path) - 1)

\* os.path.basename
basename(path) ==
    IF AfterLastSlash(path) = Len(path) THEN <<>>
    ELSE SubSeq(path, AfterLastSlash(path) + 1, Len(path))

\* path.split('/')[-1]
LastPart(path) == basename(path)

\* glob._ishidden
IsHidden(name) == name # <<>> /\ name[1] = Chr.dot

\* the directories on disk: those that hold a file, and their ancestors
Directories(tr) ==
    UNION {{SubSeq(f, 1, i - 1) : i \in {k \in DOMAIN f : f[k] = Chr.slash}}
              : f \in tr}

\* glob._glob1(dirpath, '*' + extension): the names in one directory that end
\* with the extension and are not hidden, joined to the directory
glob1(dirpath, extension, tr) ==
    {f \in tr : /\ dirname(f) = dirpath
                /\ EndsWith(basename(f), extension)
                /\ ~IsHidden(basename(f))}

\* a hidden directory on the way from base down to d
HiddenBelow(d, base) ==
    \E i \in (Len(base) + 1)..(Len(d) - 1) :
        d[i] = Chr.slash /\ d[i + 1] = Chr.dot

\* glob._glob2(base, '**'): base itself when it is a directory, and every
\* directory below it that is not reached through a hidden one
glob2(base, tr) ==
    {d \in Directories(tr) :
        \/ d = base
        \/ /\ StartsWith(d, base \o <<Chr.slash>>)
           /\ ~HiddenBelow(d, base)}

\* the directories matching folder + "**": '**' is recursive only where it is
\* a whole path component, that is where folder ends with a slash; behind
\* other characters it matches as '*' does, within one component
glob_dirs(fold, tr) ==
    IF basename(fold) = <<>>
    THEN glob2(dirname(fold), tr)
    ELSE {d \in Directories(tr) :
            /\ dirname(d) = dirname(fold)
            /\ StartsWith(basename(d), basename(fold))
            /\ ~IsHidden(basename(d))}

\* glob.glob(folder + "**/*" + extension, recursive=True)
glob(fold, extension, tr) ==
    UNION {glob1(d, extension, tr) : d \in glob_dirs(fold, tr)}

Unbound == [bound |-> FALSE, list |-> {}]

\* for extension in self.file_extensions: paths = glob.glob(...)
RECURSIVE ForExtension(_, _, _, _, _)
ForExtension(exts, k, paths, fold, tr) ==
    IF k > Len(exts) THEN paths
    ELSE ForExtension(exts, k + 1,
                      [bound |-> TRUE, list |-> glob(fold, exts[k], tr)],
                      fold, tr)

\* {'id': img_name, 'label': category_name, 'path': path}
FolderEntry(img_path) ==
    [id |-> basename(img_path),
     label |-> LastPart(dirname(img_path)),
     path |-> dirname(img_path)]

\* img_paths.extend(paths) comes after the loop over the extensions, not in
\* it: img_paths receives the list of the last glob call only, and with no
\* extension at all paths is not bound
parse_folder(fold, exts, tr) ==
    LET paths == ForExtension(exts, 1, Unbound, fold, tr)
        img_paths == SortAsc(paths.list)
    IN  IF ~paths.bound
        THEN [result |-> "UnboundLocalError", data |-> <<>>]
        ELSE [result |-> "ok",
              data |-> [i \in DOMAIN img_paths |-> FolderEntry(img_paths[i])]]

\* ImageFolderAdapter.get_meta
get_meta_folder(d, l2i) ==
    [i \in DOMAIN d |->
        [id |-> d[i].id, label |-> d[i].label, path |-> d[i].path,
         idx |-> l2i[d[i].label]]]

\* ImageFolderAdapter.__init__
construct_ImageFolderAdapter ==
    /\ built = "no"
    /\ LET parsed == parse_folder(folder, file_extensions, tree)
           l2i == create_label2idx_dict(parsed.data)
       IN  IF parsed.result # "ok"
           THEN /\ built' = parsed.result
                /\ UNCHANGED <<data, label2idx, all_meta>>
           ELSE /\ built' = "ok"
                /\ data' = parsed.data
                /\ label2idx' = l2i
                /\ all_meta' \in IF shuffle
                                 THEN Shuffles(get_meta_folder(parsed.data, l2i))
                                 ELSE {get_meta_folder(parsed.data, l2i)}
    /\ UNCHANGED <<variant, shuffle, tree, folder, file_extensions, genVars,
                   envVars, lifeVars, transformVars, scaleVars>>

\* the arguments of the constructor and the files on disk when it is called
InitFolder ==
    /\ variant = "folder"
    /\ data = <<>>
    /\ shuffle \in BOOLEAN
    /\ label2idx = EmptyMap
    /\ all_meta = <<>>
    /\ tree \in SUBSET Files
    /\ folder \in Folders
    /\ file_extensions \in ExtensionLists
    /\ built = "no"
    /\ pc = "idle"
    /\ slice_element = NoSlice
    /\ items = <<>>
    /\ idx = 0
    /\ exc = "none"
    /\ log = <<>>
    /\ temp_dirs = {}
    /\ file = [exists |-> FALSE, content |-> EmptyMap]
    /\ calls = 0
    /\ writes = 0
    /\ completed = 0
    /\ seen = {}
    /\ NoTransformCall
    /\ NoScaleCall

NextFolder == construct_ImageFolderAdapter

SpecFolder == InitFolder /\ [][NextFolder]_vars

\* the directory the folder argument names
Root(fold) ==
    IF fold # <<>> /\ fold[Len(fold)] = Chr.slash
    THEN SubSeq(fold, 1, Len(fold) - 1)
    ELSE fold

\* the files under the root whose name ends with one of the extensions
ImagesUnderRoot ==
    {f \in tree :
        /\ StartsWith(f, Root(folder) \o <<Chr.slash>>)
        /\ \E k \in DOMAIN file_extensions :
               EndsWith(basename(f), file_extensions[k])}

\* C12: an ImageFolderAdapter built with at least one extension holds exactly
\* one entry for every file under the root whose name ends with one of the
\* extensions, labelled with the name of the directory that holds the file,
\* and its label index has exactly the names of the directories that hold
\* such a file
C12_OneEntryPerImage ==
    (built = "ok" /\ file_extensions # <<>>) =>
        /\ Len(data) = Cardinality(ImagesUnderRoot)
        /\ \A f \in ImagesUnderRoot :
               \E i \in DOMAIN data :
                   /\ data[i].id = basename(f)
                   /\ data[i].path = dirname(f)
                   /\ data[i].label = LastPart(dirname(f))
        /\ DOMAIN label2idx = {LastPart(dirname(f)) : f \in ImagesUnderRoot}

====
